---- MODULE Spec2Model ----
(***************************************************************************)
(* Model of src/src/digest.py: the daily digest job.  One run is           *)
(* run_daily_digest(): load the environment, open the SQLite store, fetch  *)
(* the feed, store the entries that are new, and when there are any,       *)
(* render them and hand the document to the delivery adapter.  Runs follow *)
(* one another (one process at a time); the articles table is the only     *)
(* state that survives a run.                                              *)
(***************************************************************************)
EXTENDS Integers, Sequences, FiniteSets, TLC

\* ------------------------------------------------------------------ bounds
MaxFeed == 2        \* items in one parsed feed

\* ------------------------------------------------------------ input values
\* A link is modelled by what urlparse gives: a path and the query string as
\* its sequence of <<name, value>> pairs.
LinkA == [path |-> "/a/index.html", query |-> << <<"p", "101">> >>]
LinkB == [path |-> "/b/index.html", query |-> << <<"utm", "rss">>, <<"p", "202">> >>]
LinkNoP == [path |-> "/c/index.html", query |-> << <<"utm", "rss">> >>]
LinkBlankP == [path |-> "/d/index.html", query |-> << <<"p", "">> >>]

\* The RSS items a feed may carry.  Two of them share LinkA with different
\* title, date and description (an article edited after its first sight).
Entries ==
    { [title |-> "T1", link |-> LinkA, pub_date |-> "Mon", description |-> "S1"],
      [title |-> "T2", link |-> LinkA, pub_date |-> "Tue", description |-> "S2"],
      [title |-> "T3", link |-> LinkB, pub_date |-> "Wed", description |-> "S3"],
      [title |-> "T4", link |-> LinkNoP, pub_date |-> "Thu", description |-> "S4"],
      [title |-> "T5", link |-> LinkBlankP, pub_date |-> "Fri", description |-> "S5"] }

RECURSIVE SeqsUpTo(_, _)
SeqsUpTo(S, n) ==
    IF n = 0 THEN { <<>> }
    ELSE LET shorter == SeqsUpTo(S, n - 1)
         IN  shorter \cup { Append(s, x) : s \in { t \in shorter : Len(t) = n - 1 }, x \in S }

Feeds == SeqsUpTo(Entries, MaxFeed)

\* What requests.get returns: response.ok with the feed the body parses to,
\* or a non-success status.
Responses ==
    { [ok |-> TRUE, status_code |-> 200, items |-> f] : f \in Feeds }
        \cup { [ok |-> FALSE, status_code |-> 503, items |-> <<>>] }

\* os.environ: a variable is unset, set to the empty string, or set.
UNSET == "UNSET"
Environments ==
    [ SENDGRID_API_KEY : {UNSET, "", "sg-key"},
      AWS_ACCESS_KEY_ID : {UNSET, "aws-key"},
      RECIPIENT_EMAIL : {UNSET, "to@example.com"} ]

\* Python's None and a present value, as sequences of length 0 and 1.
None == <<>>
Some(x) == <<x>>

VARIABLES
    db,            \* the database file: its tables and the rows of articles
    feed,          \* environment: the response the feed endpoint serves now
    unchanged,     \* environment: feed is the one the latest run fetched
    pc,            \* position of the current run in run_daily_digest
    env,           \* the values send_daily_digest read from os.environ
    response,      \* the response requests.get returned in the current run
    sameFeed,      \* this run fetched the feed the previous run fetched
    items,         \* get_ars_feed's return value: None or Some(list)
    idx,           \* store_articles: index of the next item of the loop
    new_items,     \* store_articles: new_items
    content,       \* prepare_daily_digest's return value: None or Some(document)
    calls,         \* backends called in the current run, in order
    log,           \* messages logged at error level in the current run
    exc,           \* the exception that ended the current run, or ""
    sends,         \* the documents passed to send_daily_digest in the current run
    sent,          \* history: every send_daily_digest call of every run,
                   \* [content, delivered]
    startArticles  \* history: the rows at the start of the current run

vars == << db, feed, unchanged, pc, env, response, sameFeed, items, idx, new_items,
           content, calls, log, exc, sends, sent, startArticles >>

\* The rows of the articles table, in insertion order.
articles == db.articles

\* -------------------------------------------------------------- Storage
\* Faulty variant: the table is dropped and created again at every start.
create_tables_recreate(d) ==
    [tables |-> d.tables \cup {"articles"}, articles |-> <<>>]

\* CREATE TABLE IF NOT EXISTS articles (...): creates the empty table in a
\* new database file and leaves an existing table and its rows alone.
create_tables(d) ==
    IF "articles" \in d.tables
    THEN d
    ELSE [tables |-> d.tables \cup {"articles"}, articles |-> <<>>]

\* SELECT id FROM articles WHERE link = ?  (the ids of the matching rows)
select_by_link(rows, link) ==
    { rows[i].id : i \in { j \in DOMAIN rows : rows[j].link = link } }

\* id INTEGER PRIMARY KEY: SQLite assigns one more than the largest rowid.
next_id(rows) ==
    IF rows = <<>> THEN 1
    ELSE 1 + CHOOSE m \in { rows[i].id : i \in DOMAIN rows } :
                 \A i \in DOMAIN rows : rows[i].id <= m

\* INSERT INTO articles (title, link, published, summary) VALUES (?, ?, ?, ?)
\* under the schema's UNIQUE constraint on link.
insert_article(rows, title, link, published, summary) ==
    IF select_by_link(rows, link) # {}
    THEN [rows |-> rows, exc |-> "IntegrityError"]
    ELSE [rows |-> Append(rows, [id |-> next_id(rows), title |-> title, link |-> link,
                                 published |-> published, summary |-> summary]),
          exc |-> ""]

\* Faulty variant: no existence check and no constraint, every item is appended.
store_article_always_insert(rows, item) ==
    [ret |-> TRUE,
     rows |-> Append(rows, [id |-> next_id(rows), title |-> item.title, link |-> item.link,
                            published |-> item.pub_date, summary |-> item.description]),
     exc |-> ""]

\* Faulty variant: an item whose link is stored overwrites the stored row.
store_article_upsert(rows, item) ==
    IF select_by_link(rows, item.link) # {}
    THEN [ret |-> FALSE,
          rows |-> [ i \in DOMAIN rows |->
                       IF rows[i].link = item.link
                       THEN [id |-> rows[i].id, title |-> item.title, link |-> item.link,
                             published |-> item.pub_date, summary |-> item.description]
                       ELSE rows[i] ],
          exc |-> ""]
    ELSE LET ins == insert_article(rows, item.title, item.link, item.pub_date,
                                   item.description)
         IN  [ret |-> ins.exc = "", rows |-> ins.rows, exc |-> ins.exc]

\* Faulty variant: the stored item is reported as new as well.
store_article_always_new(rows, item) ==
    IF select_by_link(rows, item.link) # {}
    THEN [ret |-> TRUE, rows |-> rows, exc |-> ""]
    ELSE LET ins == insert_article(rows, item.title, item.link, item.pub_date,
                                   item.description)
         IN  [ret |-> ins.exc = "", rows |-> ins.rows, exc |-> ins.exc]

\* Storage.store_article: [ret, rows, exc], the return value, the rows after
\* the call and the exception raised ("" when none).
store_article(rows, item) ==
    IF select_by_link(rows, item.link) # {}
    THEN [ret |-> FALSE, rows |-> rows, exc |-> ""]
    ELSE LET ins == insert_article(rows, item.title, item.link, item.pub_date,
                                   item.description)
         IN  [ret |-> ins.exc = "", rows |-> ins.rows, exc |-> ins.exc]

\* ----------------------------------------------------------- get_ars_feed
\* urllib.parse.parse_qs: name -> list of values, pairs with a blank value
\* dropped (keep_blank_values defaults to False).
parse_qs(query) ==
    LET kept == SelectSeq(query, LAMBDA kv : kv[2] # "")
        names == { kept[i][1] : i \in DOMAIN kept }
    IN  [ n \in names |->
            LET vs == SelectSeq(kept, LAMBDA kv : kv[1] = n)
            IN  [ i \in DOMAIN vs |-> vs[i][2] ] ]

\* f"http://arstechnica.com?ARS_PDF={article_id}"
pdf_link(article_id) == << "http://arstechnica.com?ARS_PDF=", article_id >>

\* The items of a parsed feed with their pdf_link set.
with_pdf_links(its) ==
    [ i \in DOMAIN its |->
        [title |-> its[i].title,
         link |-> its[i].link,
         pub_date |-> its[i].pub_date,
         description |-> its[i].description,
         pdf_link |-> pdf_link(parse_qs(its[i].link.query)["p"][1])] ]

\* Faulty variant: an item whose link has no p parameter is skipped.
get_ars_feed_skip(resp) ==
    IF ~resp.ok
    THEN [ret |-> None, log |-> {"Failed to fetch feed"}, exc |-> ""]
    ELSE [ret |-> Some(with_pdf_links(
                      SelectSeq(resp.items,
                                LAMBDA it : "p" \in DOMAIN parse_qs(it.link.query)))),
          log |-> {}, exc |-> ""]

\* get_ars_feed: [ret, log, exc].  A response that is not ok is logged and the
\* function returns None; otherwise every item gets its pdf_link, and the
\* first item whose link has no p parameter raises KeyError.
get_ars_feed(resp) ==
    IF ~resp.ok
    THEN [ret |-> None, log |-> {"Failed to fetch feed"}, exc |-> ""]
    ELSE IF \E i \in DOMAIN resp.items : "p" \notin DOMAIN parse_qs(resp.items[i].link.query)
    THEN [ret |-> None, log |-> {}, exc |-> "KeyError"]
    ELSE [ret |-> Some(with_pdf_links(resp.items)), log |-> {}, exc |-> ""]

\* ---------------------------------------------------- prepare_daily_digest
\* Faulty variant: only the first item reaches the template.
prepare_daily_digest_first(its) == [items |-> << its[1] >>]

\* The document is the fixed template rendered over the items; it is modelled
\* by the list of items it is rendered from.
prepare_daily_digest(its) == [items |-> its]

\* ------------------------------------------------------------- delivery
\* What sg.send does: it returns a response, accepted (202) or not, or raises
\* (the HTTP client raises on an error status such as 401).
SendgridOutcomes ==
    { [raised |-> FALSE, status_code |-> 202],
      [raised |-> FALSE, status_code |-> 200],
      [raised |-> TRUE, status_code |-> 401] }

\* What ses.send_email does: it returns, or raises one of the exceptions.
SesOutcomes == { "sent", "NoCredentialsError", "PartialCredentialsError", "ClientError" }

BackendOutcomes == [sendgrid : SendgridOutcomes, ses : SesOutcomes]

\* call_sendgrid: [calls, log, exc].  No try/except: an exception of sg.send
\* propagates; a returned status other than 202 is logged.
call_sendgrid(out) ==
    [calls |-> << "sendgrid" >>,
     log |-> IF ~out.raised /\ out.status_code # 202 THEN {"Failed to send email"} ELSE {},
     exc |-> IF out.raised THEN "HTTPError" ELSE ""]

\* call_ses: [calls, log, exc].  Every exception of send_email is caught and
\* logged.
call_ses(out) ==
    [calls |-> << "ses" >>,
     log |-> IF out = "sent" THEN {}
             ELSE IF out \in {"NoCredentialsError", "PartialCredentialsError"}
             THEN {"AWS SES credentials are not available"}
             ELSE {"Error sending email"},
     exc |-> ""]

\* os.getenv(name) as a condition: set and not empty.
getenv_true(e, name) == e[name] # UNSET /\ e[name] # ""

\* send_daily_digest: [calls, log, exc].
send_daily_digest(e, out) ==
    IF e.RECIPIENT_EMAIL = UNSET
    THEN [calls |-> <<>>, log |-> {}, exc |-> "KeyError"]
    ELSE IF getenv_true(e, "SENDGRID_API_KEY") THEN call_sendgrid(out.sendgrid)
    ELSE IF getenv_true(e, "AWS_ACCESS_KEY_ID") THEN call_ses(out.ses)
    ELSE [calls |-> <<>>, log |-> {"No email sending service configured"}, exc |-> ""]

\* The backend took the document: one was called, nothing raised, no error.
delivered(r) == r.calls # <<>> /\ r.exc = "" /\ r.log = {}

\* ------------------------------------------------------------ the machine
NoEnv == [SENDGRID_API_KEY |-> UNSET, AWS_ACCESS_KEY_ID |-> UNSET, RECIPIENT_EMAIL |-> UNSET]
NoResponse == [ok |-> FALSE, status_code |-> 0, items |-> <<>>]

\* The memory of a process that has not started.
Fresh ==
    /\ pc = "idle"
    /\ env = NoEnv
    /\ response = NoResponse
    /\ sameFeed = FALSE
    /\ items = None
    /\ idx = 1
    /\ new_items = <<>>
    /\ content = None
    /\ calls = <<>>
    /\ log = {}
    /\ exc = ""
    /\ sends = <<>>

Init ==
    /\ db = [tables |-> {}, articles |-> <<>>]
    /\ feed \in Responses
    /\ unchanged = FALSE
    /\ sent = <<>>
    /\ startArticles = <<>>
    /\ Fresh

\* Environment: between two runs the feed endpoint starts serving another
\* document, or starts or stops failing.
FeedChanges(r) ==
    /\ pc = "idle"
    /\ r # feed
    /\ feed' = r
    /\ unchanged' = FALSE
    /\ UNCHANGED << db, pc, env, response, sameFeed, items, idx, new_items, content,
                    calls, log, exc, sends, sent, startArticles >>

\* run_daily_digest, lines 220-222: a process starts; Storage(db_path) opens
\* the database and creates the table when it is missing.
StartRun ==
    /\ pc = "idle"
    /\ db' = create_tables(db)
    /\ startArticles' = create_tables(db).articles
    /\ pc' = "get_ars_feed"
    /\ UNCHANGED << feed, unchanged, env, response, sameFeed, items, idx, new_items,
                    content, calls, log, exc, sends, sent >>

\* items = get_ars_feed(): the request is answered by what the endpoint
\* serves now.
GetArsFeed ==
    /\ pc = "get_ars_feed"
    /\ response' = feed
    /\ sameFeed' = unchanged
    /\ unchanged' = TRUE
    /\ LET r == get_ars_feed(feed)
       IN  /\ items' = r.ret
           /\ log' = log \cup r.log
           /\ exc' = r.exc
           /\ pc' = IF r.exc # "" THEN "raised" ELSE "store_articles"
    /\ UNCHANGED << db, feed, env, idx, new_items, content, calls, sends, sent,
                    startArticles >>

\* store_articles, lines 103-105: new_items = [] and the start of the loop;
\* iterating over None raises TypeError.
StoreArticlesEnter ==
    /\ pc = "store_articles"
    /\ new_items' = <<>>
    /\ idx' = 1
    /\ IF items = None
       THEN exc' = "TypeError" /\ pc' = "raised"
       ELSE exc' = exc /\ pc' = "store_loop"
    /\ UNCHANGED << db, feed, unchanged, env, response, sameFeed, items, content,
                    calls, log, sends, sent, startArticles >>

\* One iteration of the loop of store_articles, lines 105-108.
StoreArticle ==
    /\ pc = "store_loop"
    /\ idx <= Len(items[1])
    /\ LET item == items[1][idx]
           r == store_article(articles, item)
       IN  /\ db' = [db EXCEPT !.articles = r.rows]
           /\ exc' = r.exc
           /\ IF r.exc # ""
              THEN pc' = "raised" /\ UNCHANGED << idx, new_items >>
              ELSE /\ pc' = pc
                   /\ idx' = idx + 1
                   /\ new_items' = IF r.ret THEN Append(new_items, item) ELSE new_items
    /\ UNCHANGED << feed, unchanged, env, response, sameFeed, items, content, calls,
                    log, sends, sent, startArticles >>

\* Faulty variant: run_daily_digest renders and sends without testing new_items.
StoreArticlesReturnNoTest ==
    /\ pc = "store_loop"
    /\ idx > Len(items[1])
    /\ pc' = "prepare_daily_digest"
    /\ UNCHANGED << db, feed, unchanged, env, response, sameFeed, items, idx,
                    new_items, content, calls, log, exc, sends, sent, startArticles >>

\* The loop is over: store_articles returns new_items, and run_daily_digest
\* tests it (line 225).
StoreArticlesReturn ==
    /\ pc = "store_loop"
    /\ idx > Len(items[1])
    /\ pc' = IF new_items # <<>> THEN "prepare_daily_digest" ELSE "done"
    /\ UNCHANGED << db, feed, unchanged, env, response, sameFeed, items, idx,
                    new_items, content, calls, log, exc, sends, sent, startArticles >>

\* content = prepare_daily_digest(new_items)
PrepareDailyDigest ==
    /\ pc = "prepare_daily_digest"
    /\ content' = Some(prepare_daily_digest(new_items))
    /\ pc' = "send_daily_digest"
    /\ UNCHANGED << db, feed, unchanged, env, response, sameFeed, items, idx,
                    new_items, calls, log, exc, sends, sent, startArticles >>

\* send_daily_digest(content).  The run reads the three environment variables
\* only here, so their values e are drawn here; out is what the backend's
\* call does.
SendDailyDigest(e, out) ==
    /\ pc = "send_daily_digest"
    /\ env' = e
    /\ LET r == send_daily_digest(e, out)
       IN  /\ calls' = calls \o r.calls
           /\ log' = log \cup r.log
           /\ exc' = r.exc
           /\ pc' = IF r.exc # "" THEN "raised" ELSE "done"
    /\ sends' = Append(sends, content[1])
    /\ sent' = Append(sent, [content |-> content[1],
                             delivered |-> delivered(send_daily_digest(e, out))])
    /\ UNCHANGED << db, feed, unchanged, response, sameFeed, items, idx, new_items,
                    content, startArticles >>

\* Lines 230-231: run_daily_digest has returned or raised and the process
\* exits; its memory is gone, the database file stays.
ProcessExit ==
    /\ pc \in {"done", "raised"}
    /\ pc' = "idle"
    /\ env' = NoEnv
    /\ response' = NoResponse
    /\ sameFeed' = FALSE
    /\ items' = None
    /\ idx' = 1
    /\ new_items' = <<>>
    /\ content' = None
    /\ calls' = <<>>
    /\ log' = {}
    /\ exc' = ""
    /\ sends' = <<>>
    /\ UNCHANGED << db, feed, unchanged, sent, startArticles >>

Next ==
    \/ \E r \in Responses : FeedChanges(r)
    \/ StartRun
    \/ GetArsFeed
    \/ StoreArticlesEnter
    \/ StoreArticle
    \/ StoreArticlesReturn
    \/ PrepareDailyDigest
    \/ \E e \in Environments, out \in BackendOutcomes : SendDailyDigest(e, out)
    \/ ProcessExit

Spec == Init /\ [][Next]_vars

\* ================================================================ claims
Links(rows) == { rows[i].link : i \in DOMAIN rows }

\* The row store_article inserts for an item, but for its id.
SameFields(row, item) ==
    /\ row.title = item.title
    /\ row.link = item.link
    /\ row.published = item.pub_date
    /\ row.summary = item.description

\* The run is past the loop of store_articles.
LoopOver ==
    \/ pc \in {"prepare_daily_digest", "send_daily_digest", "done"}
    \/ pc = "store_loop" /\ idx > Len(items[1])
    \/ pc = "raised" /\ sends # <<>>

\* The run has ended, normally or by an unhandled exception.
RunOver == pc \in {"done", "raised"}

\* The link names no p parameter at all.
LacksP(link) == \A i \in DOMAIN link.query : link.query[i][1] # "p"

\* C1: the articles table never holds two rows with the same link.
C1_UniqueLinks ==
    \A i, j \in DOMAIN articles : articles[i].link = articles[j].link => i = j

\* An item whose link was stored has been tested by the loop and rejected.
C1_Witness ==
    /\ pc = "store_loop"
    /\ idx > 1
    /\ Len(new_items) < idx - 1
    /\ Len(articles) = 2

\* C2: a step of store_article on an item whose link is not stored returns
\* true (the item joins new_items) and appends exactly one row carrying the
\* item's title, link, published and summary, the rows before it unchanged;
\* on an item whose link is stored it returns false and the rows are
\* unchanged; no other step of any run changes the rows.
C2_StoreArticleEffect ==
    [][ IF pc = "store_loop" /\ idx <= Len(items[1])
        THEN LET item == items[1][idx]
             IN  IF item.link \in Links(articles)
                 THEN articles' = articles /\ new_items' = new_items
                 ELSE /\ Len(articles') = Len(articles) + 1
                      /\ SubSeq(articles', 1, Len(articles)) = articles
                      /\ SameFields(articles'[Len(articles')], item)
                      /\ new_items' = Append(new_items, item)
        ELSE articles' = articles ]_vars

\* An item with a stored link and another title was rejected: the row keeps
\* the title of its first sight.
C2_Witness ==
    /\ pc = "store_loop"
    /\ idx = 3
    /\ Len(new_items) = 1
    /\ \E i \in DOMAIN articles :
          /\ articles[i].link = items[1][2].link
          /\ articles[i].title # items[1][2].title
          /\ articles[i].title = items[1][1].title

\* C3: an item whose link was recorded by an earlier run is not in new_items
\* and the rows of earlier runs stay as they are, one per link; a run that
\* fetches the feed the previous run fetched records nothing and sends
\* nothing.
C3_Idempotent ==
    /\ \A i \in DOMAIN new_items : new_items[i].link \notin Links(startArticles)
    /\ Len(articles) >= Len(startArticles)
    /\ SubSeq(articles, 1, Len(startArticles)) = startArticles
    /\ \A i \in DOMAIN articles :
          i > Len(startArticles) => articles[i].link \notin Links(startArticles)
    /\ sameFeed => new_items = <<>> /\ articles = startArticles /\ sends = <<>>

\* The second of two runs on the same feed of two articles has ended.
C3_Witness ==
    /\ sameFeed
    /\ pc = "done"
    /\ items # None
    /\ Len(items[1]) = 2
    /\ Len(startArticles) = 2
    /\ sends = <<>>

\* C4: a run that has ended called send_daily_digest exactly when the list
\* store_articles returned is not empty; with an empty list nothing is
\* rendered and nothing is sent.
C4_ConditionalSend ==
    /\ RunOver => (sends # <<>> <=> new_items # <<>>)
    /\ (content # None \/ sends # <<>> \/ calls # <<>>) => new_items # <<>>
    /\ Len(sends) <= 1

\* A run with stored items only ended without a render or a send.
C4_Witness ==
    /\ pc = "done"
    /\ items # None
    /\ items[1] # <<>>
    /\ new_items = <<>>
    /\ content = None
    /\ sends = <<>>

\* C5 (as claimed): a run whose fetch got a non-success status records
\* nothing, sends nothing and ends without raising.
C5_FetchFailureExitsNormally ==
    (RunOver /\ ~response.ok) =>
        /\ articles = startArticles
        /\ sends = <<>>
        /\ pc = "done"
        /\ exc = ""

\* C6 (as claimed): once a backend has been called, whatever it answers, the
\* run does not end by an exception, and the new entries stay recorded.
C6_DeliveryFailureSwallowed ==
    calls # <<>> =>
        /\ pc # "raised"
        /\ exc = ""
        /\ \A i \in DOMAIN new_items : new_items[i].link \in Links(articles)

\* C7 (as claimed): send_daily_digest calls the first backend when the API
\* key is configured, the second when only the access key is, and none, with
\* the configuration error logged, when neither is; never more than one.
C7_BackendSelection ==
    sends # <<>> =>
        /\ getenv_true(env, "SENDGRID_API_KEY") => calls = << "sendgrid" >>
        /\ (~getenv_true(env, "SENDGRID_API_KEY") /\ getenv_true(env, "AWS_ACCESS_KEY_ID"))
              => calls = << "ses" >>
        /\ (~getenv_true(env, "SENDGRID_API_KEY") /\ ~getenv_true(env, "AWS_ACCESS_KEY_ID"))
              => calls = <<>> /\ "No email sending service configured" \in log
        /\ Len(calls) <= 1

\* The items of s whose link is not in seen and not the link of an earlier
\* item of s, in the order of s.
RECURSIVE FirstNew(_, _)
FirstNew(s, seen) ==
    IF s = <<>> THEN <<>>
    ELSE IF Head(s).link \in seen
    THEN FirstNew(Tail(s), seen)
    ELSE << Head(s) >> \o FirstNew(Tail(s), seen \cup {Head(s).link})

\* C8: new_items is the feed's items whose link was not stored, in feed
\* order, first occurrence only, at every point of the loop; the rows added
\* by the run are those items; and a run that has ended with a non-empty
\* list made one send call, with the document rendered from all of them.
C8_NewEntries ==
    /\ pc = "store_loop" =>
          new_items = FirstNew(SubSeq(items[1], 1, idx - 1), Links(startArticles))
    /\ LoopOver =>
          /\ new_items = FirstNew(items[1], Links(startArticles))
          /\ Len(articles) = Len(startArticles) + Len(new_items)
          /\ \A i \in DOMAIN new_items :
                SameFields(articles[Len(startArticles) + i], new_items[i])
    /\ (RunOver /\ new_items # <<>>) => sends = << [items |-> new_items] >>

\* Links A and B on an empty store: both inserted, one send with both.
C8_Witness ==
    /\ pc = "done"
    /\ startArticles = <<>>
    /\ Len(articles) = 2
    /\ { new_items[i].link : i \in DOMAIN new_items } = {LinkA, LinkB}
    /\ sends = << [items |-> new_items] >>

\* C9: once a successful fetch returned a feed with an item whose link lacks
\* the p parameter, the run has ended by KeyError with no item tested or
\* inserted and nothing rendered or sent.
C9_FetchAbort ==
    (response.ok /\ \E i \in DOMAIN response.items : LacksP(response.items[i].link)) =>
        /\ pc = "raised"
        /\ exc = "KeyError"
        /\ items = None
        /\ new_items = <<>>
        /\ articles = startArticles
        /\ content = None
        /\ sends = <<>>
        /\ calls = <<>>

\* The feed that aborted the run also carries an item that is valid and new.
C9_Witness ==
    /\ pc = "raised"
    /\ exc = "KeyError"
    /\ response.ok
    /\ \E i \in DOMAIN response.items : LacksP(response.items[i].link)
    /\ \E i \in DOMAIN response.items :
          /\ ~LacksP(response.items[i].link)
          /\ response.items[i].link \notin Links(articles)

\* C10: over all runs a link is in the document of at most one
\* send_daily_digest call, and in it once.
C10_AtMostOnce ==
    \A d1, d2 \in DOMAIN sent :
        \A i \in DOMAIN sent[d1].content.items, j \in DOMAIN sent[d2].content.items :
            sent[d1].content.items[i].link = sent[d2].content.items[j].link
                => d1 = d2 /\ i = j

\* A later run ended whose feed carried the link of a digest that was not
\* delivered, and which sent a digest of its own.
C10_Witness ==
    /\ pc = "done"
    /\ Len(sent) = 2
    /\ ~sent[1].delivered
    /\ sends # <<>>
    /\ \E i \in DOMAIN items[1], j \in DOMAIN sent[1].content.items :
          items[1][i].link = sent[1].content.items[j].link

====
